---- MODULE Spec2Model ----
(***************************************************************************)
(* Enrolment Dates Checker (Enrolment_Dates_Checker.py).                   *)
(*                                                                         *)
(* The program is modelled as the state machine of main(): the menu loop,  *)
(* the two processing operations it dispatches to, and inside them         *)
(* load_data, the validators check_edlp / check_edsd (row by row), the     *)
(* cleaners and compare_dates.  Text is modelled by TLA+ strings, on which *)
(* Len, \o and SubSeq act as on Python strings.                            *)
(***************************************************************************)
EXTENDS Integers, Sequences, FiniteSets, TLC

\* Largest number of data rows in either CSV file.
MaxRows == 2

VARIABLES
    lp_csv,          \* rows of the Learning Platform file (after its header line)
    sd_csv,          \* rows of the Student Database file (after its header line)
    pc,              \* position of the program
    entered,         \* text last typed at the menu prompt
    running,         \* processing operation in progress or last invoked
    source,          \* load_data: source code of the file being loaded
    read_data,       \* load_data: rows read
    ld_warnings,     \* load_data: its own warnings list
    i,               \* check_edxx: number of rows examined in this pass
    errors,          \* check_edxx: errors list
    warnings,        \* check_edxx: warnings list
    check_ret,       \* check_edxx: the returned (flag, warnings)
    to_add,          \* caller: flag returned by load_data
    warnings_to_add, \* caller: warnings returned by load_data
    raw_lp_data, lp_data, raw_sd_data, sd_data,
    combined,        \* compare_dates: the merged table of the last call
    start, expiry,   \* the two comparison results
    lp_df, sd_df,    \* the two cleaned tables
    p_warnings,      \* processing operation: its warnings list
    warnings_to_process,
    error_log,       \* calls made to ft.process_error_log in this run
    warning_log,     \* calls made to ft.process_warning_log in this run
    exports          \* tables written with to_excel in this run

files == <<lp_csv, sd_csv>>

\* what load_data and the validator it calls work on
load_vars == <<source, read_data, ld_warnings, i, errors, warnings, check_ret>>

\* what a processing operation holds
run_vars == <<to_add, warnings_to_add, raw_lp_data, lp_data, raw_sd_data,
              sd_data, lp_df, sd_df, combined, start, expiry, p_warnings,
              warnings_to_process>>

\* what the run has sent to its collaborators
sinks == <<error_log, warning_log, exports>>

vars == <<files, pc, entered, running, load_vars, run_vars, sinks>>

----------------------------------------------------------------------------
\* Python string primitives.

Min(a, b) == IF a < b THEN a ELSE b

\* s[a:b] for 0 <= a, 0 <= b: out-of-range bounds are clamped, never an error.
Slice(s, a, b) ==
    LET lo == Min(a, Len(s)) + 1
        hi == Min(b, Len(s))
    IN  IF lo > hi THEN "" ELSE SubSeq(s, lo, hi)

Whitespace == {" ", "\t", "\n", "\r"}

RECURSIVE lstrip(_)
lstrip(s) ==
    IF Len(s) > 0 /\ SubSeq(s, 1, 1) \in Whitespace
    THEN lstrip(SubSeq(s, 2, Len(s)))
    ELSE s

RECURSIVE rstrip(_)
rstrip(s) ==
    IF Len(s) > 0 /\ SubSeq(s, Len(s), Len(s)) \in Whitespace
    THEN rstrip(SubSeq(s, 1, Len(s) - 1))
    ELSE s

\* str.strip()
strip(s) == rstrip(lstrip(s))

Digits == <<"0", "1", "2", "3", "4", "5", "6", "7", "8", "9">>

IsDigit(c) == \E d \in 1..10 : Digits[d] = c

DigitVal(c) == (CHOOSE d \in 1..10 : Digits[d] = c) - 1

AllDigits(s) == Len(s) > 0 /\ \A k \in 1..Len(s) : IsDigit(SubSeq(s, k, k))

RECURSIVE DecVal(_)
DecVal(s) ==
    IF Len(s) = 0 THEN 0
    ELSE 10 * DecVal(SubSeq(s, 1, Len(s) - 1)) + DigitVal(SubSeq(s, Len(s), Len(s)))

\* The value of a row field that counts as missing: `in (None, '')'.  The csv
\* reader only yields strings, so None never occurs in a row.
Missing(v) == v = ""

----------------------------------------------------------------------------
\* Date Normalizer.

clean_date(date) ==
    IF Len(date) = 9 THEN "0" \o date ELSE date

clean_date_2(date) ==
    LET str_date == date
        day == Slice(str_date, 8, 10)
        month == Slice(str_date, 5, 7)
        year == Slice(str_date, 0, 4)
    IN  day \o "/" \o month \o "/" \o year

\* custtools.datetools.clean_date, applied to the Learning Platform dates:
\* the timestamp-to-DD/MM/YYYY conversion by fixed offsets.
da_clean_date(date) == clean_date_2(date)

\* custtools.databasetools.extract_course_code: an opaque text rule; the
\* labels below stand for one label per kind of code it can return.
extract_course_code(label) ==
    CASE label = "Adv Dip (ADV-PT-003)" -> "ADV-PT-003"
      [] label = "Navigation" -> "Skip"
      [] label = "Staff Room" -> " Skip "
      [] label = "skip intro" -> "skip"
      [] OTHER -> label

----------------------------------------------------------------------------
\* Record Validator: what one row adds to each list.

edsd_row_errors_tutor(student) ==
    (IF Missing(student[2])
     THEN <<"Course code is missing for student with Student ID " \o student[1]>>
     ELSE <<>>)
    \o (IF Missing(student[3])
        THEN <<"Tutor is missing for student with Student ID " \o student[1]>>
        ELSE <<>>)
    \o (IF Missing(student[4])
        THEN <<"Enrolment Date is missing for student with Student ID " \o student[1]>>
        ELSE <<>>)
    \o (IF Missing(student[5])
        THEN <<"Expiry Date is missing for student with Student ID " \o student[1]>>
        ELSE <<>>)

edsd_row_errors(student) ==
    (IF Missing(student[2])
     THEN <<"Course code is missing for student with Student ID " \o student[1]>>
     ELSE <<>>)
    \o (IF Missing(student[4])
        THEN <<"Enrolment Date is missing for student with Student ID " \o student[1]>>
        ELSE <<>>)
    \o (IF Missing(student[5])
        THEN <<"Expiry Date is missing for student with Student ID " \o student[1]>>
        ELSE <<>>)

edsd_row_warnings(student) ==
    IF Missing(student[3])
    THEN <<"Tutor is missing for student with Student ID " \o student[1]>>
    ELSE <<>>

edlp_row_warnings(student) ==
    IF Missing(student[2])
    THEN <<"Student Name is missing for student with Student ID " \o student[1]>>
    ELSE <<>>

edlp_row_errors(student) ==
    (IF Missing(student[3])
     THEN <<"Course is missing for student with Student ID " \o student[1]>>
     ELSE <<>>)
    \o (IF Missing(student[4])
        THEN <<"Enrolment Date is missing for student with Student ID " \o student[1]>>
        ELSE <<>>)
    \o (IF Missing(student[5])
        THEN <<"Expiry Date is missing for student with Student ID " \o student[1]>>
        ELSE <<>>)

edsd_header == "\nEnrolment Dates (Student Database) Report Warnings:\n"
edlp_header == "\nEnrolment Dates (Learning Platform) Report Warnings:\n"
edsd_label == "Enrolment Dates (Student Database) Report"
edlp_label == "Enrolment Dates (Learning Platform) Report"

\* A variant that logs whether or not there are errors.
errors_to_log_always(errs) == Len(errs) >= 0

\* `if len(errors) > 0': whether the pass saves an error log.
errors_to_log(errs) == Len(errs) > 0

\* `if len(warnings) > 1': the flag the validator returns.
has_warnings(warns) == Len(warns) > 1

----------------------------------------------------------------------------
\* Record Cleaner.

\* A variant that compares the code without regard to case.
keep_student_nocase(student, location, identifier) ==
    student[location + 1] \notin {identifier, "skip", "SKIP"}

\* `if student[location] != identifier' (location counts from 0).
keep_student(student, location, identifier) ==
    student[location + 1] # identifier

RECURSIVE remove_students(_, _, _)
remove_students(students, location, identifier) ==
    IF students = <<>> THEN <<>>
    ELSE (IF keep_student(Head(students), location, identifier)
          THEN <<Head(students)>> ELSE <<>>)
         \o remove_students(Tail(students), location, identifier)

clean_lp_student(student) ==
    <<strip(student[1]), strip(student[2]),
      strip(extract_course_code(student[3])),
      da_clean_date(student[4]), da_clean_date(student[5])>>

clean_lp_data(raw_data) ==
    remove_students([k \in 1..Len(raw_data) |-> clean_lp_student(raw_data[k])],
                    2, "Skip")

clean_sd_student(student) ==
    <<strip(student[1]), strip(student[2]),
      clean_date(student[4]), clean_date(student[5])>>

clean_sd_data(raw_data) ==
    [k \in 1..Len(raw_data) |-> clean_sd_student(raw_data[k])]

----------------------------------------------------------------------------
\* Day-first dates and timestamps (pd.to_datetime, str of a Timestamp).

RECURSIVE SplitSlash(_)
SplitSlash(s) ==
    IF \E k \in 1..Len(s) : SubSeq(s, k, k) = "/"
    THEN LET k == CHOOSE j \in 1..Len(s) :
                      /\ SubSeq(s, j, j) = "/"
                      /\ \A h \in 1..(j - 1) : SubSeq(s, h, h) # "/"
         IN  <<Slice(s, 0, k - 1)>> \o SplitSlash(Slice(s, k, Len(s)))
    ELSE <<s>>

IsLeap(y) == (y % 4 = 0 /\ y % 100 # 0) \/ y % 400 = 0

DaysIn(m, y) ==
    IF m = 2 THEN (IF IsLeap(y) THEN 29 ELSE 28)
    ELSE IF m \in {4, 6, 9, 11} THEN 30 ELSE 31

\* Whether pd.to_datetime(text, format = "%d/%m/%Y") accepts the text.
IsDayFirstDate(text) ==
    LET parts == SplitSlash(text)
    IN  /\ Len(parts) = 3
        /\ AllDigits(parts[1]) /\ Len(parts[1]) <= 2
        /\ AllDigits(parts[2]) /\ Len(parts[2]) <= 2
        /\ AllDigits(parts[3]) /\ Len(parts[3]) = 4
        /\ DecVal(parts[2]) \in 1..12
        /\ DecVal(parts[1]) \in 1..DaysIn(DecVal(parts[2]), DecVal(parts[3]))

\* pd.to_datetime on an accepted text: the timestamp, as year, month, day.
to_datetime(text) ==
    LET parts == SplitSlash(text)
    IN  <<DecVal(parts[3]), DecVal(parts[2]), DecVal(parts[1])>>

Before(t, u) ==
    \/ t[1] < u[1]
    \/ t[1] = u[1] /\ t[2] < u[2]
    \/ t[1] = u[1] /\ t[2] = u[2] /\ t[3] <= u[3]

Pad(n, width) ==
    [k \in 1..width |-> Digits[((n \div (10 ^ (width - k))) % 10) + 1]]

RECURSIVE Join(_)
Join(chars) == IF chars = <<>> THEN "" ELSE Head(chars) \o Join(Tail(chars))

\* str(Timestamp) of a date without a time of day.
str_timestamp(t) ==
    Join(Pad(t[1], 4)) \o "-" \o Join(Pad(t[2], 2)) \o "-" \o Join(Pad(t[3], 2))
    \o " 00:00:00"

----------------------------------------------------------------------------
\* Tables (pandas DataFrames): the column names in order and the rows, each
\* row a function from column name to value.

Range(f) == {f[k] : k \in DOMAIN f}

IndexOf(seq, x) == CHOOSE k \in 1..Len(seq) : seq[k] = x

\* The null marker pandas puts in the right-hand columns of an unmatched row.
NaN == "<NaN>"

DataFrame(data, columns) ==
    [columns |-> columns,
     rows |-> [r \in 1..Len(data) |->
                 [c \in Range(columns) |-> data[r][IndexOf(columns, c)]]]]

EmptyFrame == [columns |-> <<>>, rows |-> <<>>]

sid_name == "StudentID"
s_name == "Student"
c_name == "Course"
sd_name == "Start Date"
ex_name == "Expiry Date"

lp_headings == <<sid_name, s_name, c_name, sd_name, ex_name>>
sd_headings == <<sid_name, c_name, sd_name, ex_name>>

\* Name of column c of one side of a merge: suffixed when the other side has
\* a column of that name which is not the key.
Suffixed(c, other, common, suffix) ==
    IF c # common /\ c \in Range(other) THEN c \o suffix ELSE c

\* The joined row of left row l and right row r.
JoinRow(df_1, df_2, common, l, r) ==
    LET cols_1 == {Suffixed(c, df_2.columns, common, "_1") : c \in Range(df_1.columns)}
        cols_2 == {Suffixed(c, df_1.columns, common, "_2") :
                       c \in Range(df_2.columns) \ {common}}
    IN  [c \in cols_1 \cup cols_2 |->
            IF \E d \in Range(df_1.columns) :
                   Suffixed(d, df_2.columns, common, "_1") = c
            THEN l[CHOOSE d \in Range(df_1.columns) :
                       Suffixed(d, df_2.columns, common, "_1") = c]
            ELSE r[CHOOSE d \in Range(df_2.columns) \ {common} :
                       Suffixed(d, df_1.columns, common, "_2") = c]]

\* The right row of an unmatched left row: every column null.
NullRow(df) == [c \in Range(df.columns) |-> NaN]

\* The right rows a left row is joined with, in the right table's order.
RECURSIVE Matches(_, _, _)
Matches(rows, common, key) ==
    IF rows = <<>> THEN <<>>
    ELSE (IF Head(rows)[common] = key THEN <<Head(rows)>> ELSE <<>>)
         \o Matches(Tail(rows), common, key)

\* A variant that joins inner: an unmatched left row gives no joined row.
JoinedWith_inner(l, df_1, df_2, common) ==
    LET m == Matches(df_2.rows, common, l[common])
    IN  [k \in 1..Len(m) |-> JoinRow(df_1, df_2, common, l, m[k])]

\* The joined rows of left row l.
JoinedWith(l, df_1, df_2, common) ==
    LET m == Matches(df_2.rows, common, l[common])
    IN  IF m = <<>> THEN <<JoinRow(df_1, df_2, common, l, NullRow(df_2))>>
        ELSE [k \in 1..Len(m) |-> JoinRow(df_1, df_2, common, l, m[k])]

RECURSIVE MergeRows(_, _, _, _)
MergeRows(rows_1, df_1, df_2, common) ==
    IF rows_1 = <<>> THEN <<>>
    ELSE JoinedWith(Head(rows_1), df_1, df_2, common)
         \o MergeRows(Tail(rows_1), df_1, df_2, common)

\* pd.merge(df_1, df_2, on = common, how = 'left', suffixes = ['_1', '_2'])
merge(df_1, df_2, common) ==
    [columns |->
        [k \in 1..Len(df_1.columns) |->
            Suffixed(df_1.columns[k], df_2.columns, common, "_1")]
        \o [k \in 1..Len(SelectSeq(df_2.columns, LAMBDA c : c # common)) |->
            Suffixed(SelectSeq(df_2.columns, LAMBDA c : c # common)[k],
                     df_1.columns, common, "_2")],
     rows |-> MergeRows(df_1.rows, df_1, df_2, common)]

\* A variant that compares two day-first dates by the day they name.
py_ne_as_dates(a, b) ==
    IF IsDayFirstDate(a) /\ IsDayFirstDate(b)
    THEN to_datetime(a) # to_datetime(b)
    ELSE a = NaN \/ b = NaN \/ a # b

\* Python's a != b on two cells: a null marker is unequal to everything,
\* itself included.
py_ne(a, b) == a = NaN \/ b = NaN \/ a # b

RECURSIVE Differing(_, _, _)
Differing(rows, col_name, headings) ==
    IF rows = <<>> THEN <<>>
    ELSE (IF py_ne(Head(rows)[col_name \o "_1"], Head(rows)[col_name \o "_2"])
          THEN <<[c \in Range(headings) |-> Head(rows)[c]]>>
          ELSE <<>>)
         \o Differing(Tail(rows), col_name, headings)

\* compare_dates, given the merged table.
identified(merged, col_name, headings) ==
    [columns |-> headings,
     rows |-> Differing(merged.rows, col_name, headings)]

compare_dates(df_1, df_2, common, col_name, headings) ==
    identified(merge(df_1, df_2, common), col_name, headings)

\* DataFrame.rename(columns = {from_1: to_1, from_2: to_2})
Renamed(c, from_1, to_1, from_2, to_2) ==
    IF c = from_1 THEN to_1 ELSE IF c = from_2 THEN to_2 ELSE c

rename(df, from_1, to_1, from_2, to_2) ==
    [columns |-> [k \in 1..Len(df.columns) |->
                    Renamed(df.columns[k], from_1, to_1, from_2, to_2)],
     rows |-> [r \in 1..Len(df.rows) |->
                 [c \in {Renamed(d, from_1, to_1, from_2, to_2) :
                             d \in Range(df.columns)} |->
                    df.rows[r][CHOOSE d \in Range(df.columns) :
                                  Renamed(d, from_1, to_1, from_2, to_2) = c]]]]

start_headings == <<sid_name, s_name, "Course_1", "Start Date_1", "Start Date_2">>
expiry_headings == <<sid_name, s_name, "Course_1", "Expiry Date_1", "Expiry Date_2">>

\* The orders sort_values may leave the rows in: any order that is sorted on
\* the start date (the default sort is not stable).
SortedOrders(rows) ==
    {f \in [1..Len(rows) -> 1..Len(rows)] :
        /\ \A a, b \in 1..Len(rows) : a # b => f[a] # f[b]
        /\ \A a, b \in 1..Len(rows) :
              a < b => Before(to_datetime(rows[f[a]][sd_name]),
                              to_datetime(rows[f[b]][sd_name]))}

----------------------------------------------------------------------------
\* main: the menu.

low == 1
high == 3

\* int(text): the integer, or ValueError (ok = FALSE).
py_int(text) ==
    LET t == strip(text)
        signed == Len(t) > 0 /\ SubSeq(t, 1, 1) \in {"+", "-"}
        body == IF signed THEN SubSeq(t, 2, Len(t)) ELSE t
    IN  IF AllDigits(body)
        THEN [ok |-> TRUE,
              value |-> IF signed /\ SubSeq(t, 1, 1) = "-"
                        THEN 0 - DecVal(body) ELSE DecVal(body)]
        ELSE [ok |-> FALSE, value |-> 0]

\* A variant whose range check lets the value below low through to the
\* first branch.
selection_low(text) ==
    LET action == py_int(text)
    IN  IF ~action.ok THEN "try_again"
        ELSE IF action.value > high THEN "try_again"
        ELSE IF action.value <= low THEN "process_enrolment_dates"
        ELSE IF action.value = 2 THEN "process_enrolments"
        ELSE "exit"

\* What main does with the text typed at the menu.
selection(text) ==
    LET action == py_int(text)
    IN  IF ~action.ok THEN "try_again"
        ELSE IF action.value < low \/ action.value > high THEN "try_again"
        ELSE IF action.value = low THEN "process_enrolment_dates"
        ELSE IF action.value = 2 THEN "process_enrolments"
        ELSE IF action.value = high THEN "exit"
        ELSE "none"

MenuInputs == {"1", "2", "3", "0", "4", "x", "", " 3 ", "-1", "2.5"}

----------------------------------------------------------------------------
\* The files on disk.

Files(rows) == UNION {[1..n -> rows] : n \in 0..MaxRows}

\* Learning Platform rows: Student ID, Student, Course, Enrolment Date,
\* Expiry Date.
LPRows ==
    {<<"1001", "Ann", "Adv Dip (ADV-PT-003)", "2020-03-01T00:00:00", "2021-03-01T00:00:00">>,
     <<"1001", "Ann", "Navigation", "2020-03-01T00:00:00", "2021-03-01T00:00:00">>,
     <<" 1002", "", "Staff Room", "2020-03-05T00:00:00", "2021-03-05T00:00:00">>,
     <<"1003", "Cy", "skip intro", "", "2021-04-10T00:00:00">>,
     <<"", "Di", "Adv Dip (ADV-PT-003)", "2020-03-01T00:00:00", "2021-03-01T00:00:00">>}

\* Student Database rows: Student ID, Course, Tutor, Enrolment Date, Expiry
\* Date.
SDRows ==
    {<<"1001", "ADV-PT-003", "Tutor A", "01/03/2020", "01/03/2021">>,
     <<"1001 ", "ADV-PT-003", "", "1/3/2020", "02/03/2021">>,
     <<"1003", "", "Tutor B", "10/04/2020", "10/04/2021">>}

\* Rows with every combination of present and missing fields.
CheckRows ==
    {<<"7", a, b, c, d>> : a \in {"", "A"}, b \in {"", "B"},
                           c \in {"", "1/1/2020"}, d \in {"", "1/1/2021"}}

\* Student Database rows with the date texts of a day-first date.
DateTexts == {"", "01/03/2020", "1/3/2020", "10/3/2020", "1/12/2020", "10/12/2020"}

DateRows ==
    {<<"1001", "ADV-PT-003", "Tutor A", d, "01/03/2021">> : d \in DateTexts}
    \cup {<<"1001", "ADV-PT-003", "Tutor A", "01/03/2020", d>> : d \in DateTexts}

Started ==
    /\ pc = "menu"
    /\ entered = ""
    /\ running = "none"
    /\ source = ""
    /\ read_data = <<>>
    /\ ld_warnings = <<>>
    /\ i = 0
    /\ errors = <<>>
    /\ warnings = <<>>
    /\ check_ret = <<FALSE, <<>>>>
    /\ to_add = FALSE
    /\ warnings_to_add = <<>>
    /\ raw_lp_data = <<>>
    /\ lp_data = <<>>
    /\ raw_sd_data = <<>>
    /\ sd_data = <<>>
    /\ lp_df = EmptyFrame
    /\ sd_df = EmptyFrame
    /\ combined = EmptyFrame
    /\ start = EmptyFrame
    /\ expiry = EmptyFrame
    /\ p_warnings = <<>>
    /\ warnings_to_process = FALSE
    /\ error_log = <<>>
    /\ warning_log = <<>>
    /\ exports = <<>>

Init ==
    /\ lp_csv \in Files(LPRows)
    /\ sd_csv \in Files(SDRows)
    /\ Started

InitCheck ==
    /\ \/ lp_csv \in Files(CheckRows) /\ sd_csv = <<>>
       \/ lp_csv = <<>> /\ sd_csv \in Files(CheckRows)
    /\ Started

InitDates ==
    /\ lp_csv \in Files({<<"1001", "Ann", "Adv Dip (ADV-PT-003)",
                           "2020-03-01T00:00:00", "2021-03-01T00:00:00">>})
    /\ sd_csv \in Files(DateRows)
    /\ Started

----------------------------------------------------------------------------
\* main

\* Entry of a processing operation: its locals, and the call of load_data
\* for the Learning Platform file.
Enter(operation, header) ==
    /\ running' = operation
    /\ pc' = "load"
    /\ source' = "edlp"
    /\ p_warnings' = <<header>>
    /\ warnings_to_process' = FALSE
    /\ read_data' = <<>>
    /\ ld_warnings' = <<>>
    /\ i' = 0
    /\ errors' = <<>>
    /\ warnings' = <<>>
    /\ check_ret' = <<FALSE, <<>>>>
    /\ to_add' = FALSE
    /\ warnings_to_add' = <<>>
    /\ raw_lp_data' = <<>>
    /\ lp_data' = <<>>
    /\ raw_sd_data' = <<>>
    /\ sd_data' = <<>>
    /\ lp_df' = EmptyFrame
    /\ sd_df' = EmptyFrame
    /\ combined' = EmptyFrame
    /\ start' = EmptyFrame
    /\ expiry' = EmptyFrame
    /\ error_log' = <<>>
    /\ warning_log' = <<>>
    /\ exports' = <<>>

\* A selection that is no integer or is out of range: the menu again.
MenuTryAgain ==
    /\ pc = "menu"
    /\ \E text \in MenuInputs :
        /\ selection(text) = "try_again"
        /\ entered' = text
    /\ pc' = "menu"
    /\ UNCHANGED <<files, running, load_vars, run_vars, sinks>>

MenuEnrolmentDates ==
    /\ pc = "menu"
    /\ \E text \in MenuInputs :
        /\ selection(text) = "process_enrolment_dates"
        /\ entered' = text
    /\ Enter("process_enrolment_dates", "\nProcessing Enrolment Dates data Warnings:\n")
    /\ UNCHANGED files

MenuEnrolments ==
    /\ pc = "menu"
    /\ \E text \in MenuInputs :
        /\ selection(text) = "process_enrolments"
        /\ entered' = text
    /\ Enter("process_enrolments", "\nProcessing Enrolments data Warnings:\n")
    /\ UNCHANGED files

\* sys.exit()
MenuExit ==
    /\ pc = "menu"
    /\ \E text \in MenuInputs :
        /\ selection(text) = "exit"
        /\ entered' = text
    /\ pc' = "exited"
    /\ UNCHANGED <<files, running, load_vars, run_vars, sinks>>

\* ad.check_repeat(): the operator's answer decides whether the loop goes on.
CheckRepeat ==
    /\ pc = "repeat"
    /\ \E repeat \in BOOLEAN :
        pc' = IF repeat THEN "menu" ELSE "finished"
    /\ UNCHANGED <<files, entered, running, load_vars, run_vars, sinks>>

----------------------------------------------------------------------------
\* load_data and the validator it calls.

\* A variant that also leaves out the rows with a missing field.
keep_row_complete(row) == \A k \in 1..Len(row) : ~Missing(row[k])

\* `if row[0] not in (None, '')'
keep_row(row) == ~Missing(row[1])

RECURSIVE read_rows(_)
read_rows(file) ==
    IF file = <<>> THEN <<>>
    ELSE (IF keep_row(Head(file)) THEN <<Head(file)>> ELSE <<>>)
         \o read_rows(Tail(file))

\* The file is read, and the validator of the source is entered.
LoadRead ==
    /\ pc = "load"
    /\ read_data' = read_rows(IF source = "edlp" THEN lp_csv ELSE sd_csv)
    /\ ld_warnings' = <<>>
    /\ i' = 0
    /\ errors' = <<>>
    /\ warnings' = <<IF source = "edlp" THEN edlp_header ELSE edsd_header>>
    /\ pc' = "check"
    /\ UNCHANGED <<files, entered, running, source, check_ret, run_vars, sinks>>

\* One turn of the validator's loop.
CheckRow ==
    /\ pc = "check"
    /\ i < Len(read_data)
    /\ LET student == read_data[i + 1]
       IN  /\ errors' = errors \o (IF source = "edlp" THEN edlp_row_errors(student)
                                   ELSE edsd_row_errors(student))
           /\ warnings' = warnings \o (IF source = "edlp" THEN edlp_row_warnings(student)
                                       ELSE edsd_row_warnings(student))
    /\ i' = i + 1
    /\ UNCHANGED <<files, pc, entered, running, source, read_data, ld_warnings,
                   check_ret, run_vars, sinks>>

\* After the loop: the error log, and the validator's return.
CheckEnd ==
    /\ pc = "check"
    /\ i = Len(read_data)
    /\ error_log' =
         IF errors_to_log(errors)
         THEN Append(error_log,
                     [errors |-> errors,
                      label |-> IF source = "edlp" THEN edlp_label ELSE edsd_label])
         ELSE error_log
    /\ check_ret' = <<has_warnings(warnings), warnings>>
    /\ pc' = "load_return"
    /\ UNCHANGED <<files, entered, running, source, read_data, ld_warnings, i,
                   errors, warnings, run_vars, warning_log, exports>>

\* load_data returns its rows and its own warnings list; what the validator
\* returned is not used.
LoadReturn ==
    /\ pc = "load_return"
    /\ to_add' = (Len(ld_warnings) > 0)
    /\ warnings_to_add' = ld_warnings
    /\ IF source = "edlp"
       THEN /\ raw_lp_data' = read_data
            /\ pc' = "clean_lp"
            /\ UNCHANGED raw_sd_data
       ELSE /\ raw_sd_data' = read_data
            /\ pc' = "clean_sd"
            /\ UNCHANGED raw_lp_data
    /\ UNCHANGED <<files, entered, running, load_vars, lp_data, sd_data, lp_df,
                   sd_df, combined, start, expiry, p_warnings,
                   warnings_to_process, sinks>>

----------------------------------------------------------------------------
\* The processing operations.

\* clean_lp_data and the table built from it; process_enrolment_dates goes
\* on to load the Student Database file.
CleanLP ==
    /\ pc = "clean_lp"
    /\ lp_data' = clean_lp_data(raw_lp_data)
    /\ lp_df' = DataFrame(lp_data', lp_headings)
    /\ IF running = "process_enrolment_dates"
       THEN pc' = "load" /\ source' = "edsd"
       ELSE pc' = "sort" /\ UNCHANGED source
    /\ UNCHANGED <<files, entered, running, read_data, ld_warnings, i, errors,
                   warnings, check_ret, to_add, warnings_to_add, raw_lp_data,
                   raw_sd_data, sd_data, sd_df, combined, start, expiry,
                   p_warnings, warnings_to_process, sinks>>

CleanSD ==
    /\ pc = "clean_sd"
    /\ sd_data' = clean_sd_data(raw_sd_data)
    /\ sd_df' = DataFrame(sd_data', sd_headings)
    /\ pc' = "compare_start"
    /\ UNCHANGED <<files, entered, running, load_vars, to_add, warnings_to_add,
                   raw_lp_data, lp_data, raw_sd_data, lp_df, combined, start,
                   expiry, p_warnings, warnings_to_process, sinks>>

CompareStart ==
    /\ pc = "compare_start"
    /\ combined' = merge(lp_df, sd_df, sid_name)
    /\ start' = rename(compare_dates(lp_df, sd_df, sid_name, sd_name, start_headings),
                       "Start Date_1", "Start Date LP",
                       "Start Date_2", "Start Date SD")
    /\ pc' = "export_start"
    /\ UNCHANGED <<files, entered, running, load_vars, to_add, warnings_to_add,
                   raw_lp_data, lp_data, raw_sd_data, sd_data, lp_df, sd_df,
                   expiry, p_warnings, warnings_to_process, sinks>>

ExportStart ==
    /\ pc = "export_start"
    /\ exports' = Append(exports, [name |-> "Start_Dates", table |-> start])
    /\ pc' = "compare_expiry"
    /\ UNCHANGED <<files, entered, running, load_vars, run_vars, error_log,
                   warning_log>>

CompareExpiry ==
    /\ pc = "compare_expiry"
    /\ combined' = merge(lp_df, sd_df, sid_name)
    /\ expiry' = rename(compare_dates(lp_df, sd_df, sid_name, ex_name, expiry_headings),
                        "Expiry Date_1", "Expiry Date LP",
                        "Expiry Date_2", "Expiry Date SD")
    /\ pc' = "export_expiry"
    /\ UNCHANGED <<files, entered, running, load_vars, to_add, warnings_to_add,
                   raw_lp_data, lp_data, raw_sd_data, sd_data, lp_df, sd_df,
                   start, p_warnings, warnings_to_process, sinks>>

ExportExpiry ==
    /\ pc = "export_expiry"
    /\ exports' = Append(exports, [name |-> "Expiry_Dates", table |-> expiry])
    /\ pc' = "warning_log"
    /\ UNCHANGED <<files, entered, running, load_vars, run_vars, error_log,
                   warning_log>>

\* process_enrolments: the start dates are parsed (a text that is no
\* day-first date raises, and the program ends), the rows ordered on them and
\* the dates written back as text.
SortOnStartDate ==
    /\ pc = "sort"
    /\ IF \A r \in 1..Len(lp_df.rows) : IsDayFirstDate(lp_df.rows[r][sd_name])
       THEN /\ \E order \in SortedOrders(lp_df.rows) :
                 lp_df' = [lp_df EXCEPT !.rows =
                     [r \in 1..Len(lp_df.rows) |->
                         [lp_df.rows[order[r]] EXCEPT ![sd_name] =
                             clean_date_2(str_timestamp(to_datetime(@)))]]]
            /\ pc' = "export_enrolments"
       ELSE /\ pc' = "raised"
            /\ UNCHANGED lp_df
    /\ UNCHANGED <<files, entered, running, load_vars, to_add, warnings_to_add,
                   raw_lp_data, lp_data, raw_sd_data, sd_data, sd_df, combined,
                   start, expiry, p_warnings, warnings_to_process, sinks>>

ExportEnrolments ==
    /\ pc = "export_enrolments"
    /\ exports' = Append(exports, [name |-> "Enrolment_Dates", table |-> lp_df])
    /\ pc' = "warning_log"
    /\ UNCHANGED <<files, entered, running, load_vars, run_vars, error_log,
                   warning_log>>

\* ft.process_warning_log(warnings, warnings_to_process), and the return to
\* main, which asks whether to repeat.
WarningLog ==
    /\ pc = "warning_log"
    /\ warning_log' = Append(warning_log,
                             [warnings |-> p_warnings, flag |-> warnings_to_process])
    /\ pc' = "repeat"
    /\ UNCHANGED <<files, entered, running, load_vars, run_vars, error_log, exports>>

Next ==
    \/ MenuTryAgain
    \/ MenuEnrolmentDates
    \/ MenuEnrolments
    \/ MenuExit
    \/ CheckRepeat
    \/ LoadRead
    \/ CheckRow
    \/ CheckEnd
    \/ LoadReturn
    \/ CleanLP
    \/ CleanSD
    \/ CompareStart
    \/ ExportStart
    \/ CompareExpiry
    \/ ExportExpiry
    \/ SortOnStartDate
    \/ ExportEnrolments
    \/ WarningLog

\* Runs on the reconciliation rows.
Spec == Init /\ [][Next]_vars

\* Runs on rows with every combination of missing fields.
SpecCheck == InitCheck /\ [][Next]_vars

\* Runs on Student Database rows with every shape of day-first date.
SpecDates == InitDates /\ [][Next]_vars

----------------------------------------------------------------------------
\* Properties of the reconciliation (compare_dates).

\* The rows of the right table with the key of left row k, in order.
RightMatches(k) ==
    SelectSeq(sd_df.rows, LAMBDA r : r[sid_name] = lp_df.rows[k][sid_name])

\* The number of joined rows left row k must give.
FanOut(k) == IF RightMatches(k) = <<>> THEN 1 ELSE Len(RightMatches(k))

RECURSIVE JoinedBefore(_)
JoinedBefore(k) == IF k <= 1 THEN 0 ELSE JoinedBefore(k - 1) + FanOut(k - 1)

\* Joined row j carries left row k and, at the right, the t-th match of k or
\* nulls when k has no match.
CarriesPair(j, k, t) ==
    LET row == combined.rows[j]
        l == lp_df.rows[k]
    IN  /\ row[sid_name] = l[sid_name]
        /\ row[s_name] = l[s_name]
        /\ row["Course_1"] = l[c_name]
        /\ row["Start Date_1"] = l[sd_name]
        /\ row["Expiry Date_1"] = l[ex_name]
        /\ IF RightMatches(k) = <<>>
           THEN /\ row["Course_2"] = NaN
                /\ row["Start Date_2"] = NaN
                /\ row["Expiry Date_2"] = NaN
           ELSE /\ row["Course_2"] = RightMatches(k)[t][c_name]
                /\ row["Start Date_2"] = RightMatches(k)[t][sd_name]
                /\ row["Expiry Date_2"] = RightMatches(k)[t][ex_name]

\* combined is the left join of lp_df with sd_df on the Student ID.
IsLeftJoin ==
    /\ Len(combined.rows) = JoinedBefore(Len(lp_df.rows) + 1)
    /\ \A k \in 1..Len(lp_df.rows) : \A t \in 1..FanOut(k) :
          CarriesPair(JoinedBefore(k) + t, k, t)

\* The two dates of a joined row are unequal as strings, a null on either
\* side counting as unequal.
DatesDiffer(row, col_name) ==
    \/ row[col_name \o "_1"] = NaN
    \/ row[col_name \o "_2"] = NaN
    \/ row[col_name \o "_1"] # row[col_name \o "_2"]

\* The rows a comparison must report, as the caller labels them.
Reported(col_name) ==
    LET differ == SelectSeq(combined.rows, LAMBDA row : DatesDiffer(row, col_name))
    IN  [j \in 1..Len(differ) |->
            (sid_name :> differ[j][sid_name]) @@ (s_name :> differ[j][s_name])
            @@ ("Course_1" :> differ[j]["Course_1"])
            @@ ((col_name \o " LP") :> differ[j][col_name \o "_1"])
            @@ ((col_name \o " SD") :> differ[j][col_name \o "_2"])]

\* C1: the table compare_dates returns holds exactly the rows of the left
\* join J whose two dates are unequal by exact string equality (a null on
\* either side counting as unequal), in the order of J; when every pair of
\* dates is equal it is empty.
C1_ComparedRows ==
    /\ pc = "export_start" =>
          /\ IsLeftJoin
          /\ start.columns = <<sid_name, s_name, "Course_1", "Start Date LP", "Start Date SD">>
          /\ start.rows = Reported(sd_name)
          /\ ((\A j \in 1..Len(combined.rows) :
                  combined.rows[j]["Start Date_1"] = combined.rows[j]["Start Date_2"])
              => start.rows = <<>>)
    /\ pc = "export_expiry" =>
          /\ IsLeftJoin
          /\ expiry.rows = Reported(ex_name)
          /\ ((\A j \in 1..Len(combined.rows) :
                  combined.rows[j]["Expiry Date_1"] = combined.rows[j]["Expiry Date_2"])
              => expiry.rows = <<>>)

\* A comparison that reports a student without a right row and a student
\* whose date differs, and leaves out one whose dates agree.
C1_Witness ==
    /\ pc = "export_start"
    /\ Len(start.rows) = 2
    /\ Len(combined.rows) = 3
    /\ \E j \in 1..2 : start.rows[j]["Start Date SD"] = NaN
    /\ \E j \in 1..2 : start.rows[j]["Start Date SD"] = "1/3/2020"

\* The rows of a result table that are of student id.
RowsOf(table, id) == {j \in 1..Len(table.rows) : table.rows[j][sid_name] = id}

LeftOnly(id) ==
    /\ \E k \in 1..Len(lp_df.rows) : lp_df.rows[k][sid_name] = id
    /\ \A k \in 1..Len(sd_df.rows) : sd_df.rows[k][sid_name] # id

\* C2: every row of the left table is in the join at least once, and a
\* student of the left table with no row in the right table gives exactly one
\* result row per left row, with a null right-hand date, in the start-date
\* and in the expiry-date comparison.
C2_LeftRowsKept ==
    /\ pc \in {"export_start", "export_expiry"} => IsLeftJoin
    /\ pc = "export_expiry" =>
          \A id \in {lp_df.rows[k][sid_name] : k \in 1..Len(lp_df.rows)} :
              LeftOnly(id) =>
                  /\ Cardinality(RowsOf(start, id)) = Cardinality(RowsOf(lp_df, id))
                  /\ Cardinality(RowsOf(expiry, id)) = Cardinality(RowsOf(lp_df, id))
                  /\ \A j \in RowsOf(start, id) : start.rows[j]["Start Date SD"] = NaN
                  /\ \A j \in RowsOf(expiry, id) : expiry.rows[j]["Expiry Date SD"] = NaN

\* A student with two rows at the left and none among the rows at the right.
C2_Witness ==
    /\ pc = "export_expiry"
    /\ LeftOnly("1003")
    /\ sd_df.rows # <<>>
    /\ Cardinality(RowsOf(lp_df, "1003")) = 2
    /\ Cardinality(RowsOf(start, "1003")) = 2
    /\ Cardinality(RowsOf(expiry, "1003")) = 2

----------------------------------------------------------------------------
\* Properties of the cleaning.

\* DD/MM/YYYY: ten characters, two digits, a slash, two digits, a slash, four
\* digits.
IsCanonicalDate(text) ==
    /\ Len(text) = 10
    /\ AllDigits(SubSeq(text, 1, 2))
    /\ SubSeq(text, 3, 3) = "/"
    /\ AllDigits(SubSeq(text, 4, 5))
    /\ SubSeq(text, 6, 6) = "/"
    /\ AllDigits(SubSeq(text, 7, 10))

\* A day-first slash-delimited date: day and month of one or two digits, a
\* year of four.
IsDayFirstText(text) ==
    LET parts == SplitSlash(text)
    IN  /\ Len(parts) = 3
        /\ AllDigits(parts[1]) /\ Len(parts[1]) \in {1, 2}
        /\ AllDigits(parts[2]) /\ Len(parts[2]) \in {1, 2}
        /\ AllDigits(parts[3]) /\ Len(parts[3]) = 4

\* The Student Database rows have been cleaned.
SDCleaned == pc \in {"compare_start", "export_start", "compare_expiry",
                     "export_expiry", "warning_log", "repeat"}

\* C3: with student "1001" starting "1/3/2020" in the Student Database and
\* "2020-03-01T..." in the Learning Platform, cleaning brings both start dates
\* to "01/03/2020" and the start-date comparison reports no mismatch for the
\* student.
C3_EndToEnd ==
    (/\ pc = "export_start"
     /\ lp_csv = <<<<"1001", "Ann", "Adv Dip (ADV-PT-003)",
                     "2020-03-01T00:00:00", "2021-03-01T00:00:00">>>>
     /\ sd_csv = <<<<"1001", "ADV-PT-003", "Tutor A", "1/3/2020", "01/03/2021">>>>)
    => /\ lp_data[1][4] = "01/03/2020"
       /\ sd_data[1][3] = "01/03/2020"
       /\ RowsOf(start, "1001") = {}

\* C4: when every date field of the raw Student Database rows is empty or a
\* day-first slash-delimited date, every StartDate and ExpiryDate clean_sd_data
\* gives is empty or DD/MM/YYYY with zero-padded day and month.
C4_CanonicalDates ==
    (/\ SDCleaned
     /\ \A k \in 1..Len(raw_sd_data) : \A f \in {4, 5} :
           raw_sd_data[k][f] = "" \/ IsDayFirstText(raw_sd_data[k][f]))
    => \A k \in 1..Len(sd_data) : \A f \in {3, 4} :
           sd_data[k][f] = "" \/ IsCanonicalDate(sd_data[k][f])

\* The rows of clean_lp_data's loop, before remove_students.
CleanedLPRows == [k \in 1..Len(raw_lp_data) |-> clean_lp_student(raw_lp_data[k])]

\* C9: clean_lp_data gives exactly the cleaned rows whose course code is not
\* the string "Skip", each once and in input order: a code that is "Skip"
\* once trimmed is dropped, a code such as "skip" is kept, and rows are not
\* merged, duplicated or deduplicated.
C9_SkipRowsDropped ==
    pc # "clean_lp" =>
        /\ lp_data = SelectSeq(CleanedLPRows, LAMBDA row : row[3] # "Skip")
        /\ \A k \in 1..Len(lp_data) : lp_data[k][3] # "Skip"
        /\ Len(lp_data) = Cardinality({k \in 1..Len(raw_lp_data) :
                                          strip(extract_course_code(raw_lp_data[k][3])) # "Skip"})

\* A row whose code is "Skip" only once trimmed is dropped, and the row
\* after it, with the code "skip", is kept.
C9_Witness ==
    /\ pc = "sort"
    /\ Len(raw_lp_data) = 2
    /\ extract_course_code(raw_lp_data[1][3]) = " Skip "
    /\ Len(lp_data) = 1
    /\ lp_data[1] = clean_lp_student(raw_lp_data[2])
    /\ lp_data[1][3] = "skip"

----------------------------------------------------------------------------
\* Properties of the validators.

\* The rows among the first n read whose field f (counted from 0) is missing.
RowsMissing(f, n) == {k \in 1..n : read_data[k][f + 1] = ""}

\* The messages a list must hold after the rows given: for each row in
\* order, one message for each listed field that is missing.
RECURSIVE Expected(_, _)
Expected(rows, fields) ==
    IF rows = <<>> THEN <<>>
    ELSE LET student == Head(rows)
             said == SelectSeq(fields, LAMBDA fm : student[fm[1] + 1] = "")
         IN  [k \in 1..Len(said) |->
                 said[k][2] \o " is missing for student with Student ID "
                 \o student[1]]
             \o Expected(Tail(rows), fields)

ErrorFields ==
    IF source = "edsd"
    THEN <<<<1, "Course code">>, <<3, "Enrolment Date">>, <<4, "Expiry Date">>>>
    ELSE <<<<2, "Course">>, <<3, "Enrolment Date">>, <<4, "Expiry Date">>>>

WarningFields ==
    IF source = "edsd" THEN <<<<2, "Tutor">>>> ELSE <<<<1, "Student Name">>>>

\* C5: after a pass of check_edsd the errors list holds, in row order, one
\* error for each of Course (1), EnrolmentDate (3), ExpiryDate (4) that is
\* missing, and the warnings list a header and then one warning per row whose
\* Tutor (2) is missing; after a pass of check_edlp the warnings are for
\* StudentName (1) and the errors for Course (2), EnrolmentDate (3),
\* ExpiryDate (4); the returned flag is true exactly when a warning follows
\* the header.
C5_Classification ==
    pc = "load_return" =>
        /\ errors = Expected(read_data, ErrorFields)
        /\ Len(errors) = Cardinality(RowsMissing(ErrorFields[1][1], Len(read_data)))
                         + Cardinality(RowsMissing(3, Len(read_data)))
                         + Cardinality(RowsMissing(4, Len(read_data)))
        /\ Len(warnings) = 1 + Cardinality(RowsMissing(WarningFields[1][1], Len(read_data)))
        /\ Head(warnings) = (IF source = "edsd" THEN edsd_header ELSE edlp_header)
        /\ Tail(warnings) = Expected(read_data, WarningFields)
        /\ check_ret[2] = warnings
        /\ check_ret[1] = (RowsMissing(WarningFields[1][1], Len(read_data)) # {})

\* A Student Database row with only the Course missing gives one error and
\* no warning; a Learning Platform row with only the name missing gives one
\* warning and no error.
C5_Witness ==
    /\ pc = "load_return"
    /\ \/ /\ source = "edsd"
          /\ read_data = <<<<"7", "", "B", "1/1/2020", "1/1/2021">>>>
          /\ Len(errors) = 1 /\ Len(warnings) = 1 /\ ~check_ret[1]
       \/ /\ source = "edlp"
          /\ read_data = <<<<"7", "", "B", "1/1/2020", "1/1/2021">>>>
          /\ Len(errors) = 0 /\ Len(warnings) = 2 /\ check_ret[1]

\* The calls of the error log made for the source being validated.
LogCalls ==
    SelectSeq(error_log,
              LAMBDA call : call.label = (IF source = "edlp" THEN edlp_label
                                          ELSE edsd_label))

\* C7: the error log is called only once every row has been examined, at
\* most once per pass, exactly when an error was collected, with the complete
\* errors list of the source and the source's report label.
C7_LogAfterPass ==
    /\ pc = "check" => LogCalls = <<>>
    /\ pc = "load_return" =>
          /\ i = Len(read_data)
          /\ Len(LogCalls) <= 1
          /\ (LogCalls # <<>>) = (Expected(read_data, ErrorFields) # <<>>)
          /\ LogCalls # <<>> =>
                LogCalls[1].errors = Expected(read_data, ErrorFields)
    /\ \A k \in 1..Len(error_log) :
          /\ error_log[k].errors # <<>>
          /\ error_log[k].label \in {edlp_label, edsd_label}
    /\ \A k, h \in 1..Len(error_log) :
          error_log[k].label = error_log[h].label => k = h

\* A pass over two rows, the second with missing dates, ended with one call
\* that holds the errors of both.
C7_Witness ==
    /\ pc = "load_return"
    /\ source = "edsd"
    /\ Len(read_data) = 2
    /\ read_data[1][2] = ""
    /\ read_data[2][4] = "" /\ read_data[2][5] = ""
    /\ Len(error_log) = 1
    /\ Len(error_log[1].errors) >= 3

----------------------------------------------------------------------------
\* Properties of a top-level run.

\* The warnings the rows loaded in this run call for.
RunWarnings ==
    {"Student Name is missing for student with Student ID " \o raw_lp_data[k][1] :
        k \in {h \in 1..Len(raw_lp_data) : raw_lp_data[h][2] = ""}}
    \cup
    {"Tutor is missing for student with Student ID " \o raw_sd_data[k][1] :
        k \in {h \in 1..Len(raw_sd_data) : raw_sd_data[h][3] = ""}}

\* C6: when a loaded row has an empty warning-class field (Tutor in the
\* Student Database, StudentName in the Learning Platform), the warning-log
\* call at the end of the run receives a warnings list that holds that
\* warning, with the flag true.
C6_WarningsSurfaced ==
    (pc = "repeat" /\ RunWarnings # {}) =>
        /\ Len(warning_log) = 1
        /\ warning_log[1].flag
        /\ RunWarnings \subseteq Range(warning_log[1].warnings)

\* The rows of a file that have a Student ID.
WithStudentID(file) == SelectSeq(file, LAMBDA row : row[1] # "")

\* The cleaned Learning Platform row of raw row k is among the joined rows.
Compared(k) ==
    \E j \in 1..Len(combined.rows) :
        /\ combined.rows[j][sid_name] = strip(raw_lp_data[k][1])
        /\ combined.rows[j]["Start Date_1"] = da_clean_date(raw_lp_data[k][4])
        /\ combined.rows[j]["Expiry Date_1"] = da_clean_date(raw_lp_data[k][5])

\* The step process_enrolment_dates is at can be taken (the two comparisons
\* are guarded by the position alone).
RunGoesOn ==
    /\ pc = "load" => ENABLED LoadRead
    /\ pc = "check" => ENABLED (CheckRow \/ CheckEnd)
    /\ pc = "load_return" => ENABLED LoadReturn
    /\ pc = "clean_lp" => ENABLED CleanLP
    /\ pc = "clean_sd" => ENABLED CleanSD
    /\ pc = "export_start" => ENABLED ExportStart
    /\ pc = "export_expiry" => ENABLED ExportExpiry
    /\ pc = "warning_log" => ENABLED WarningLog
    /\ pc \in {"load", "check", "load_return", "clean_lp", "clean_sd",
               "compare_start", "export_start", "compare_expiry",
               "export_expiry", "warning_log", "repeat", "menu", "finished",
               "exited"}

\* C8: load_data returns exactly the rows read that have a Student ID,
\* unchanged and in order, whether or not the validator collected errors;
\* process_enrolment_dates then cleans both sources, makes both comparisons
\* and both exports; a row with an empty fatal field is carried through to
\* the comparison, and the run never ends on an error.
C8_ErrorsDoNotBlock ==
    /\ pc = "load_return" =>
          read_data = WithStudentID(IF source = "edlp" THEN lp_csv ELSE sd_csv)
    /\ running = "process_enrolment_dates" =>
          /\ pc # "raised"
          /\ RunGoesOn
    /\ (running = "process_enrolment_dates" /\ pc = "repeat") =>
          /\ raw_lp_data = WithStudentID(lp_csv)
          /\ raw_sd_data = WithStudentID(sd_csv)
          /\ Len(sd_data) = Len(raw_sd_data)
          /\ \A k \in 1..Len(raw_sd_data) :
                /\ sd_data[k][3] = clean_date(raw_sd_data[k][4])
                /\ sd_df.rows[k][sd_name] = sd_data[k][3]
          /\ \A k \in 1..Len(raw_lp_data) :
                strip(extract_course_code(raw_lp_data[k][3])) # "Skip" => Compared(k)
          /\ Len(exports) = 2
          /\ exports[1] = [name |-> "Start_Dates", table |-> start]
          /\ exports[2] = [name |-> "Expiry_Dates", table |-> expiry]
          /\ start.columns = <<sid_name, s_name, "Course_1", "Start Date LP", "Start Date SD">>
          /\ expiry.columns = <<sid_name, s_name, "Course_1", "Expiry Date LP", "Expiry Date SD">>
          /\ Len(warning_log) = 1

\* A run whose Learning Platform row has no start date and whose Student
\* Database row has no course: both errors are logged, both rows are
\* compared and both tables exported.
C8_Witness ==
    /\ running = "process_enrolment_dates"
    /\ pc = "repeat"
    /\ Len(error_log) = 2
    /\ \E k \in 1..Len(raw_lp_data) : raw_lp_data[k][4] = "" /\ Compared(k)
    /\ \E k \in 1..Len(raw_sd_data) : raw_sd_data[k][2] = ""
    /\ Len(raw_lp_data) < Len(lp_csv)
    /\ Len(exports) = 2

\* The selection typed in the step, as the menu reads it.
Typed == py_int(entered')

Invalid == ~Typed.ok \/ Typed.value < 1 \/ Typed.value > 3

\* C10: an invalid selection shows the menu again without invoking a
\* processing operation or asking the repeat question; selection 1 invokes
\* only process_enrolment_dates and selection 2 only process_enrolments, each
\* followed by one repeat question whose answer decides whether the loop goes
\* on; selection 3 ends the program without invoking either.
C10_MenuLoop ==
    [][/\ (pc = "menu" /\ Invalid) =>
             pc' = "menu" /\ UNCHANGED <<running, load_vars, run_vars, sinks>>
       /\ (pc = "menu" /\ ~Invalid /\ Typed.value = 1) =>
             pc' = "load" /\ running' = "process_enrolment_dates"
       /\ (pc = "menu" /\ ~Invalid /\ Typed.value = 2) =>
             pc' = "load" /\ running' = "process_enrolments"
       /\ (pc = "menu" /\ ~Invalid /\ Typed.value = 3) =>
             pc' = "exited" /\ UNCHANGED <<running, load_vars, run_vars, sinks>>
       /\ running' # running => pc = "menu"
       /\ (pc' = "load" /\ source' = "edlp") => pc = "menu"
       /\ pc' = "repeat" => pc = "warning_log"
       /\ pc = "warning_log" => pc' = "repeat"
       /\ pc = "repeat" =>
             pc' \in {"menu", "finished"} /\ UNCHANGED <<running, load_vars, run_vars, sinks>>
       /\ pc' = "menu" => pc \in {"menu", "repeat"}
       /\ pc \notin {"exited", "finished", "raised"}
      ]_vars

\* Back at the menu after process_enrolments and a repeat, an out-of-range
\* selection has shown the menu again.
C10_Witness ==
    /\ pc = "menu"
    /\ entered = "4"
    /\ running = "process_enrolments"
    /\ Len(exports) = 1
    /\ Len(warning_log) = 1

====
